---- MODULE Spec2Model ----
(***************************************************************************)
(* Order matching and position accounting of the execution engine          *)
(* (cpp/src/execution_engine.cpp, cpp/include/execution_engine.hpp).       *)
(*                                                                         *)
(* Numbers.  Prices are whole currency units; every double the engine      *)
(* computes (matched price, average price, realized P&L) is modelled as an *)
(* exact rational [n, d] in lowest terms with d > 0.  A division by zero   *)
(* yields NonFinite (IEEE inf/NaN), which every later operation on the     *)
(* accounting keeps non-finite.  Rounding of doubles is not modelled.      *)
(*                                                                         *)
(* Containers.  std::priority_queue is modelled as the array heap of       *)
(* libstdc++ (std::push_heap / std::pop_heap over a vector), index 1 of    *)
(* the sequence being the vector's element 0 and top().                    *)
(*                                                                         *)
(* Identifiers.  order_id is modelled by the ordinal of the                *)
(* generate_order_id call that produced it (1, 2, ...), so that it also    *)
(* tells the submission order of two orders.                               *)
(***************************************************************************)
EXTENDS Integers, Sequences, FiniteSets, TLC

\* ---------------------------------------------------------------------------
\* Bounds and input sets
\* ---------------------------------------------------------------------------
MaxOrders == 5

Symbols == {"AAPL", "MSFT"}

SubmitSymbols == {"AAPL"}

Prices == {100, 105}

Quantities == {50, 100}

RawQuantities == {-50, 50}

\* the single lot size of the scenarios with queries and listeners
LotQuantities == {100}

\* how many listener registrations are live at once
MaxSubscriptions == 2

\* how many orders are submitted next to the lifecycle calls
MaxLifeOrders == 1

\* how many publish cycles the market data thread runs
MaxCycles == 2

\* how many submit_order calls the concurrent threads make in all
MaxThreadOrders == 2

\* how many values are emitted on the source stream
MaxEmits == 3

\* how many market data events the strategy processes
MaxTicks == 3

\* the random change of one tick, in percent: the two ends of
\* uniform_real_distribution(-1.0, 1.0)
Changes == {-1, 1}

\* MarketDataGenerator's initial price
DefaultPrice == 100

\* the volume of every tick
TickVolume == 100

\* ---------------------------------------------------------------------------
\* Exact arithmetic standing for double
\* ---------------------------------------------------------------------------
Abs(x) == IF x < 0 THEN -x ELSE x

RECURSIVE GCD(_, _)
GCD(a, b) == IF b = 0 THEN a ELSE GCD(b, a % b)

NonFinite == [n |-> 0, d |-> 0]

IsFinite(x) == x.d # 0

Rat(n, d) ==
    IF d = 0 THEN NonFinite
    ELSE LET g == GCD(Abs(n), Abs(d))
             s == IF d < 0 THEN -1 ELSE 1
         IN  [n |-> (s * n) \div g, d |-> (s * d) \div g]

RInt(i) == [n |-> i, d |-> 1]

RAdd(x, y) ==
    IF ~IsFinite(x) \/ ~IsFinite(y) THEN NonFinite
    ELSE LET l == (x.d * y.d) \div GCD(x.d, y.d)
         IN  Rat(x.n * (l \div x.d) + y.n * (l \div y.d), l)

RNeg(x) == IF IsFinite(x) THEN [n |-> -x.n, d |-> x.d] ELSE NonFinite

RSub(x, y) == RAdd(x, RNeg(y))

RMul(x, y) ==
    IF ~IsFinite(x) \/ ~IsFinite(y) THEN NonFinite
    ELSE LET a == Rat(x.n, y.d)
             b == Rat(y.n, x.d)
         IN  Rat(a.n * b.n, a.d * b.d)

RDiv(x, y) ==
    IF ~IsFinite(x) \/ ~IsFinite(y) \/ y.n = 0 THEN NonFinite
    ELSE RMul(x, Rat(y.d, y.n))

RLess(x, y) == IsFinite(x) /\ IsFinite(y) /\ x.n * y.d < y.n * x.d

\* ---------------------------------------------------------------------------
\* Orders and the priority queues
\* ---------------------------------------------------------------------------
Order(order_id, symbol, price, quantity, is_buy) ==
    [order_id |-> order_id, symbol |-> symbol, price |-> price,
     quantity |-> quantity, is_buy |-> is_buy]

\* OrderBook::OrderCompare: "a is served after b"
OrderCompare(a, b) ==
    IF a.is_buy THEN a.price < b.price ELSE a.price > b.price

\* std::__push_heap: move `value` up from the hole (0-based indices)
RECURSIVE PushHeapFrom(_, _, _, _)
PushHeapFrom(h, holeIndex, topIndex, value) ==
    LET parent == (holeIndex - 1) \div 2
    IN  IF holeIndex > topIndex /\ OrderCompare(h[parent + 1], value)
        THEN PushHeapFrom([h EXCEPT ![holeIndex + 1] = h[parent + 1]],
                          parent, topIndex, value)
        ELSE [h EXCEPT ![holeIndex + 1] = value]

\* std::__adjust_heap, first loop: the hole follows the preferred child
\* down to the last node that has two children.  Returns <<h, hole, child>>.
RECURSIVE AdjustDown(_, _, _, _)
AdjustDown(h, holeIndex, secondChild, len) ==
    IF secondChild < (len - 1) \div 2
    THEN LET c  == 2 * (secondChild + 1)
             c2 == IF OrderCompare(h[c + 1], h[c]) THEN c - 1 ELSE c
         IN  AdjustDown([h EXCEPT ![holeIndex + 1] = h[c2 + 1]], c2, c2, len)
    ELSE <<h, holeIndex, secondChild>>

\* std::__adjust_heap over the first `len` elements, then __push_heap
AdjustHeap(h, len, value) ==
    LET r  == AdjustDown(h, 0, 0, len)
        h1 == r[1]
        hole1 == r[2]
        sc == r[3]
        lone == len % 2 = 0 /\ sc = (len - 2) \div 2
        h2 == IF lone THEN [h1 EXCEPT ![hole1 + 1] = h1[2 * (sc + 1)]] ELSE h1
        hole2 == IF lone THEN 2 * (sc + 1) - 1 ELSE hole1
    IN  PushHeapFrom(h2, hole2, 0, value)

\* priority_queue::push: push_back, then std::push_heap
HeapPush(h, value) == PushHeapFrom(Append(h, value), Len(h), 0, value)

\* priority_queue::pop: std::pop_heap, then pop_back
HeapPop(h) ==
    IF Len(h) <= 1 THEN <<>>
    ELSE LET n == Len(h)
             moved == [h EXCEPT ![n] = h[1]]
         IN  SubSeq(AdjustHeap(moved, n - 1, h[n]), 1, n - 1)

\* priority_queue::top
HeapTop(h) == h[1]

\* ---------------------------------------------------------------------------
\* State
\* ---------------------------------------------------------------------------
VARIABLES
    order_books,    \* ExecutionEngine::order_books: symbol -> OrderBook
    engine_mutex,   \* ExecutionEngine::engine_mutex: "free" or "held"
    book_mutex,     \* the symbols whose OrderBook::book_mutex is held
    pc,             \* where the caller is: "idle", or "matching" inside add_order
    cur,            \* the symbol of the book the running submit_order works on
    next_id,        \* how many identifiers generate_order_id has produced
    submitted,      \* history: the orders passed to add_order, in call order
    fills,          \* history: one record per executed match, in order
    running,        \* ExecutionEngine::running (std::atomic<bool>)
    tick_pc,        \* market_data_thread: "none" (not joinable), or where
                    \* market_data_thread_func is: "loop", "want_lock",
                    \* "publishing", "exited" (returned, not yet joined)
    stop_pc,        \* per thread calling stop(): "idle", or "joining" in join()
    aborted,        \* std::terminate has been called
    stop_returned,  \* history: a stop() has returned since the last start()
    market_data_callbacks,  \* symbol -> sequence of market-data listeners
    trade_callbacks,        \* symbol -> sequence of trade listeners
    delivered,      \* history: the callback invocations of the latest publish
                    \* cycle, in order, each with the tick it was given
    generators,     \* market_data_thread_func's local map: symbol -> price_
    cycles,         \* history: how many publish cycles have run
    engines,        \* several ExecutionEngine instances used by several
                    \* threads: engine -> [mutex, books, book_locks, history]
    tpc,            \* where each of those threads is inside submit_order
    treq,           \* the order each of those threads is submitting
    tlocal,         \* the generator state a thread inside generate_order_id read
    rng,            \* the static generator of generate_order_id: ids drawn
    tread,          \* history: the last get_position result of each thread
    wrapper,        \* the OCaml ExecutionEngine.t: its two Hashtbl of
                    \* callback lists, newest callback first
    closures,       \* the OCaml closures handed to the engine as callbacks:
                    \* name -> the list the closure captured
    subscribers,    \* the `subscribers` ref of each FRP stream, newest first
    emitted,        \* history: the values emitted on the source stream
    received,       \* what each collecting subscriber has been handed
    strategy,       \* the strategy execute_strategy was called with
    ticks,          \* history: the market data the strategy has processed
    engine_calls,   \* history: the orders the strategy submitted to the engine
    trade_received, \* history: the trades handed to trade listeners
    stop_result,    \* history: how the last stop() to return ended:
                    \* "noop" (nothing to join) or "joined"
    query,          \* the client thread's call in progress
    ret             \* history: the client thread's last returned call

bookVars == <<order_books, engine_mutex, book_mutex, pc, cur, next_id, submitted, fills>>
lifeVars == <<running, tick_pc, stop_pc, aborted, stop_returned, delivered, stop_result,
              generators, cycles>>
subVars == <<market_data_callbacks, trade_callbacks, trade_received>>
clientVars == <<query, ret>>
threadVars == <<engines, tpc, treq, tlocal, rng, tread>>
wrapperVars == <<wrapper, closures>>
frpVars == <<subscribers, emitted, received, strategy, ticks, engine_calls>>

vars == <<order_books, engine_mutex, book_mutex, pc, cur, next_id, submitted, fills,
          running, tick_pc, stop_pc, aborted, stop_returned,
          market_data_callbacks, trade_callbacks, delivered, trade_received,
          stop_result, query, ret, generators, cycles,
          engines, tpc, treq, tlocal, rng, tread, wrapper, closures,
          subscribers, emitted, received, strategy, ticks, engine_calls>>

\* the threads that call stop()
StopCallers == {"s1", "s2"}

\* the listeners (callbacks) a client can register
Listeners == {"l1", "l2"}

\* a listener whose callback throws
ThrowingListeners == {"lx"}

\* the read queries of ExecutionEngine
QueryOps == {"get_position", "get_average_price",
             "get_unrealized_pnl", "get_realized_pnl"}

\* the client thread is between calls
NoCall == [pc |-> "idle", op |-> "", symbol |-> "", order_id |-> 0]

\* the client thread has not returned from any call yet
NoReturn == [op |-> "", symbol |-> "", order_id |-> 0,
             value |-> [n |-> 0, d |-> 1], ok |-> FALSE]

\* mutant: the constructor leaves average_price_ with a stale value
NewOrderBookStaleAverage(symbol) ==
    [symbol_ |-> symbol, buy_orders |-> <<>>, sell_orders |-> <<>>,
     position_ |-> 0, average_price_ |-> [n |-> 100, d |-> 1],
     realized_pnl_ |-> [n |-> 0, d |-> 1]]

\* OrderBook(symbol): empty queues, zero accounting
NewOrderBook(symbol) ==
    [symbol_ |-> symbol, buy_orders |-> <<>>, sell_orders |-> <<>>,
     position_ |-> 0, average_price_ |-> RInt(0), realized_pnl_ |-> RInt(0)]

\* mutant: the map is replaced by one that holds the new book only
TryEmplaceAlone(books, symbol) == [s \in {symbol} |-> NewOrderBook(symbol)]

\* order_books.try_emplace(symbol, OrderBook(symbol))
TryEmplace(books, symbol) ==
    IF symbol \in DOMAIN books THEN books
    ELSE [s \in DOMAIN books \cup {symbol} |->
             IF s = symbol THEN NewOrderBook(symbol) ELSE books[s]]

\* the ExecutionEngine instances and the threads of the concurrent scenario:
\* t1 and t2 share engine e1, t3 uses engine e2
Engines == {"e1", "e2"}

Threads == {"t1", "t2", "t3"}

EngineOf(t) == IF t = "t3" THEN "e2" ELSE "e1"

\* ExecutionEngine(): no book, engine_mutex free; `history` lists the orders
\* passed to add_order
NewEngine ==
    [mutex |-> "free", books |-> <<>>, book_locks |-> {}, history |-> <<>>]

\* the names of the closures built by the OCaml wrapper
ClosureNames == {"fun1", "fun2", "fun3", "fun4"}

\* test_stream_operators: stream = create_stream (), doubled = map stream,
\* filtered = filter doubled; map and filter each subscribe one function to
\* their source
Pipeline ==
    [stream   |-> <<[kind |-> "map"]>>,
     doubled  |-> <<[kind |-> "filter"]>>,
     filtered |-> <<>>]

\* execute_strategy has not been called
NoStrategy == [name |-> "", rules |-> <<>>, max_position_size |-> 0]

\* a thread outside submit_order
NoOrder ==
    [order_id |-> 0, symbol |-> "", price |-> 0, quantity |-> 0, is_buy |-> FALSE]

\* a thread that has not called get_position yet
NoRead == [position |-> 0, seen |-> 0]

\* OrderBook::add_order, the insertion
InsertOrder(book, order) ==
    IF order.is_buy
    THEN [book EXCEPT !.buy_orders = HeapPush(@, order)]
    ELSE [book EXCEPT !.sell_orders = HeapPush(@, order)]

\* ---------------------------------------------------------------------------
\* OrderBook::match_orders, one iteration of the loop
\* ---------------------------------------------------------------------------
\* mutant: equal prices no longer match
PricesCrossStrict(buy, sell) == buy.price > sell.price

\* mutant: the comparison of the two prices is turned around
PricesCrossReversed(buy, sell) == buy.price <= sell.price

PricesCross(buy, sell) == buy.price >= sell.price

\* mutant: the loop matches the tops whatever their prices
CanMatchAnyPrice(book) ==
    /\ book.buy_orders # <<>>
    /\ book.sell_orders # <<>>

\* the loop goes on: both sides non-empty and the tops cross
CanMatch(book) ==
    /\ book.buy_orders # <<>>
    /\ book.sell_orders # <<>>
    /\ PricesCross(HeapTop(book.buy_orders), HeapTop(book.sell_orders))

\* std::min(buy.quantity, sell.quantity)
MatchedQuantity(buy, sell) ==
    IF sell.quantity < buy.quantity THEN sell.quantity ELSE buy.quantity

\* mutant: the match is priced at the sell order's price
MatchedPriceOfSell(buy, sell) == RInt(sell.price)

\* (buy.price + sell.price) / 2.0
MatchedPrice(buy, sell) == Rat(buy.price + sell.price, 2)

\* mutant: the top order is popped even when the match uses only part of it
FillTopDropsOrder(h, matched_quantity) == HeapPop(h)

\* mutant: the top order is reduced in place and never popped
FillTopNeverPops(h, matched_quantity) ==
    [h EXCEPT ![1].quantity = @ - matched_quantity]

\* pop the top order when the match uses it up, else reduce it in place
FillTop(h, matched_quantity) ==
    IF HeapTop(h).quantity = matched_quantity
    THEN HeapPop(h)
    ELSE [h EXCEPT ![1].quantity = @ - matched_quantity]

\* mutant: the matched quantity is subtracted from the position
NewPositionNet(position, matched_quantity) == position - matched_quantity

\* position_ += matched_quantity
NewPosition(position, matched_quantity) == position + matched_quantity

\* old_value = average_price_ * position_ (position_ already updated);
\* average_price_ = (old_value + new_value) / (position_ + matched_quantity)
NewAveragePrice(average_price, position, matched_price, matched_quantity) ==
    LET old_value == RMul(average_price, RInt(position))
        new_value == RMul(matched_price, RInt(matched_quantity))
    IN  RDiv(RAdd(old_value, new_value), RInt(position + matched_quantity))

\* realized_pnl_ += (matched_price - average_price_) * matched_quantity
\* (average_price_ already updated)
NewRealizedPnl(realized_pnl, average_price, matched_price, matched_quantity) ==
    RAdd(realized_pnl,
         RMul(RSub(matched_price, average_price), RInt(matched_quantity)))

MatchOnce(book) ==
    LET buy  == HeapTop(book.buy_orders)
        sell == HeapTop(book.sell_orders)
        matched_quantity == MatchedQuantity(buy, sell)
        matched_price    == MatchedPrice(buy, sell)
        position == NewPosition(book.position_, matched_quantity)
        average  == NewAveragePrice(book.average_price_, position,
                                    matched_price, matched_quantity)
    IN  [book EXCEPT
            !.buy_orders     = FillTop(@, matched_quantity),
            !.sell_orders    = FillTop(@, matched_quantity),
            !.position_      = position,
            !.average_price_ = average,
            !.realized_pnl_  = NewRealizedPnl(@, average, matched_price,
                                              matched_quantity)]

\* what the iteration matched (the loop's locals), for the history
FillRecord(book, call) ==
    LET buy  == HeapTop(book.buy_orders)
        sell == HeapTop(book.sell_orders)
    IN  [call |-> call, symbol |-> book.symbol_,
         price |-> MatchedPrice(buy, sell),
         quantity |-> MatchedQuantity(buy, sell),
         buy_id |-> buy.order_id, sell_id |-> sell.order_id]

\* ---------------------------------------------------------------------------
\* Actions
\* ---------------------------------------------------------------------------
Init ==
    /\ order_books = <<>>
    /\ engine_mutex = "free"
    /\ book_mutex = {}
    /\ pc = "idle"
    /\ cur = ""
    /\ next_id = 0
    /\ submitted = <<>>
    /\ fills = <<>>
    /\ running = FALSE
    /\ tick_pc = "none"
    /\ stop_pc = [t \in StopCallers |-> "idle"]
    /\ aborted = FALSE
    /\ stop_returned = FALSE
    /\ market_data_callbacks = <<>>
    /\ trade_callbacks = <<>>
    /\ delivered = <<>>
    /\ generators = <<>>
    /\ cycles = 0
    /\ engines = [e \in Engines |-> NewEngine]
    /\ tpc = [t \in Threads |-> "idle"]
    /\ treq = [t \in Threads |-> NoOrder]
    /\ tlocal = [t \in Threads |-> 0]
    /\ rng = 0
    /\ tread = [t \in Threads |-> NoRead]
    /\ wrapper = [market_data_callbacks |-> <<>>, trade_callbacks |-> <<>>]
    /\ closures = <<>>
    /\ subscribers = Pipeline
    /\ emitted = <<>>
    /\ received = [l \in Listeners |-> <<>>]
    /\ strategy = NoStrategy
    /\ ticks = <<>>
    /\ engine_calls = <<>>
    /\ trade_received = <<>>
    /\ stop_result = ""
    /\ query = NoCall
    /\ ret = NoReturn

\* ExecutionEngine::submit_order up to and including the insertion made by
\* OrderBook::add_order; both locks stay held while match_orders runs
SubmitOrder(symbol, price, quantity, is_buy) ==
    /\ ~aborted
    /\ UNCHANGED <<threadVars, wrapperVars, frpVars>>
    /\ pc = "idle"
    /\ engine_mutex = "free"
    /\ next_id < MaxOrders
    /\ LET order_with_id == Order(next_id + 1, symbol, price, quantity, is_buy)
           books == TryEmplace(order_books, symbol)
       IN  /\ order_books' = [books EXCEPT ![symbol] = InsertOrder(@, order_with_id)]
           /\ submitted' = Append(submitted, order_with_id)
    /\ engine_mutex' = "held"
    /\ book_mutex' = book_mutex \cup {symbol}
    /\ next_id' = next_id + 1
    /\ cur' = symbol
    /\ pc' = "matching"
    /\ UNCHANGED <<fills, lifeVars, subVars, clientVars>>

\* one iteration of the while loop of match_orders that matches
MatchStep ==
    /\ ~aborted
    /\ UNCHANGED <<threadVars, wrapperVars, frpVars>>
    /\ pc = "matching"
    /\ CanMatch(order_books[cur])
    /\ order_books' = [order_books EXCEPT ![cur] = MatchOnce(@)]
    /\ fills' = Append(fills, FillRecord(order_books[cur], next_id))
    /\ UNCHANGED <<engine_mutex, book_mutex, pc, cur, next_id, submitted>>
    /\ UNCHANGED <<lifeVars, subVars, clientVars>>

\* the loop ends (a side is empty, or the tops do not cross: break);
\* add_order and submit_order return and release the locks
SubmitReturn ==
    /\ ~aborted
    /\ UNCHANGED <<threadVars, wrapperVars, frpVars>>
    /\ pc = "matching"
    /\ ~CanMatch(order_books[cur])
    /\ pc' = "idle"
    /\ book_mutex' = book_mutex \ {cur}
    /\ engine_mutex' = "free"
    /\ UNCHANGED <<order_books, cur, next_id, submitted, fills>>
    /\ UNCHANGED <<lifeVars, subVars, clientVars>>

\* well-formed orders for one symbol
Next ==
    \/ \E symbol \in SubmitSymbols, price \in Prices,
          quantity \in Quantities, is_buy \in BOOLEAN :
            SubmitOrder(symbol, price, quantity, is_buy)
    \/ MatchStep
    \/ SubmitReturn

Spec == Init /\ [][Next]_vars

\* orders as submit_order accepts them: the quantity is any int
NextRaw ==
    \/ \E symbol \in SubmitSymbols, price \in Prices,
          quantity \in RawQuantities, is_buy \in BOOLEAN :
            SubmitOrder(symbol, price, quantity, is_buy)
    \/ MatchStep
    \/ SubmitReturn

SpecRaw == Init /\ [][NextRaw]_vars

\* ---------------------------------------------------------------------------
\* Read queries of the engine
\* ---------------------------------------------------------------------------
get_position(symbol) ==
    IF symbol \in DOMAIN order_books THEN order_books[symbol].position_ ELSE 0

get_average_price(symbol) ==
    IF symbol \in DOMAIN order_books
    THEN order_books[symbol].average_price_ ELSE RInt(0)

get_realized_pnl(symbol) ==
    IF symbol \in DOMAIN order_books
    THEN order_books[symbol].realized_pnl_ ELSE RInt(0)

\* OrderBook::get_best_bid / get_best_ask on an existing book
get_best_bid(book) ==
    IF book.buy_orders = <<>> THEN 0 ELSE HeapTop(book.buy_orders).price

get_best_ask(book) ==
    IF book.sell_orders = <<>> THEN 0 ELSE HeapTop(book.sell_orders).price

\* ---------------------------------------------------------------------------
\* Vocabulary of the properties
\* ---------------------------------------------------------------------------
Range(h) == {h[i] : i \in DOMAIN h}

RECURSIVE SumQuantity(_)
SumQuantity(h) ==
    IF h = <<>> THEN 0 ELSE h[1].quantity + SumQuantity(Tail(h))

\* remaining quantity of the order `id` in the queue h, 0 once it has left
RemainingOf(h, id) == SumQuantity(SelectSeq(h, LAMBDA o : o.order_id = id))

TotalRemaining(book) ==
    SumQuantity(book.buy_orders) + SumQuantity(book.sell_orders)

\* the book is two-sided and some buy is priced at or above some sell
Crossed(book) ==
    \E b \in Range(book.buy_orders), a \in Range(book.sell_orders) :
        b.price >= a.price

\* a match is about to run on the current book
AtMatch == pc = "matching" /\ CanMatch(order_books[cur])

TypeOK ==
    /\ DOMAIN order_books \subseteq Symbols
    /\ engine_mutex \in {"free", "held", "query", "tick"}
    /\ book_mutex \subseteq DOMAIN order_books
    /\ pc \in {"idle", "matching"}
    /\ (pc = "matching") = (engine_mutex = "held")
    /\ pc = "matching" => cur \in book_mutex
    /\ next_id = Len(submitted)
    /\ next_id \in 0..MaxOrders
    /\ \A s \in DOMAIN order_books :
          /\ order_books[s].symbol_ = s
          /\ \A o \in Range(order_books[s].buy_orders) : o.is_buy /\ o.symbol = s
          /\ \A o \in Range(order_books[s].sell_orders) : ~o.is_buy /\ o.symbol = s
    /\ running \in BOOLEAN /\ aborted \in BOOLEAN /\ stop_returned \in BOOLEAN
    /\ tick_pc \in {"none", "loop", "want_lock", "publishing", "exited"}
    /\ (tick_pc = "publishing") = (engine_mutex = "tick")
    /\ running => tick_pc # "none"
    /\ stop_pc \in [StopCallers -> {"idle", "joining"}]
    /\ stop_result \in {"", "noop", "joined"}
    /\ DOMAIN market_data_callbacks \subseteq Symbols
    /\ DOMAIN trade_callbacks \subseteq Symbols
    /\ \A i \in DOMAIN delivered : delivered[i].data.symbol \in Symbols
    /\ DOMAIN generators \subseteq Symbols
    /\ cycles \in 0..MaxCycles
    /\ DOMAIN engines = Engines
    /\ \A e \in Engines :
          /\ engines[e].mutex \in Threads \cup {"free"}
          /\ DOMAIN engines[e].books \subseteq Symbols
          /\ engines[e].book_locks \subseteq Symbols
          /\ Len(engines[e].history) <= MaxThreadOrders
    /\ tpc \in [Threads -> {"idle", "locked", "in_gen", "have_id", "matching"}]
    /\ DOMAIN treq = Threads
    /\ tlocal \in [Threads -> 0..MaxThreadOrders]
    /\ rng \in 0..MaxThreadOrders
    /\ DOMAIN tread = Threads
    /\ DOMAIN wrapper.market_data_callbacks \subseteq Symbols
    /\ DOMAIN wrapper.trade_callbacks \subseteq Symbols
    /\ DOMAIN closures \subseteq ClosureNames
    /\ DOMAIN subscribers = {"stream", "doubled", "filtered"}
    /\ Len(emitted) <= MaxEmits
    /\ DOMAIN received = Listeners
    /\ Len(ticks) <= MaxTicks
    /\ Len(engine_calls) <= Len(ticks) * Len(strategy.rules)
    /\ trade_received = <<>>
    /\ query.pc \in {"idle", "locked", "in_book", "deadlocked", "cancel"}
    /\ (query.pc \in {"locked", "in_book", "deadlocked"}) = (engine_mutex = "query")
    /\ query.pc \in {"in_book", "deadlocked"} => query.symbol \in book_mutex

\* ---------------------------------------------------------------------------
\* C1  No crossed book
\* ---------------------------------------------------------------------------
\* C1: once add_order has returned, every resting buy of a book is priced
\* strictly below every resting sell of that book; in particular the best bid
\* is below the best ask whenever both sides are present.
NoCrossedBook ==
    pc = "idle" =>
        \A s \in DOMAIN order_books :
            LET book == order_books[s]
            IN  /\ ~Crossed(book)
                /\ (book.buy_orders # <<>> /\ book.sell_orders # <<>>)
                      => get_best_bid(book) < get_best_ask(book)

\* a two-sided book at rest after a call that matched
NoCrossedBookWitness ==
    /\ pc = "idle"
    /\ cur \in DOMAIN order_books
    /\ order_books[cur].buy_orders # <<>>
    /\ order_books[cur].sell_orders # <<>>
    /\ \E i \in DOMAIN fills : fills[i].call = next_id

\* ---------------------------------------------------------------------------
\* C2  Price-time priority
\* ---------------------------------------------------------------------------
\* C2: whenever a match runs, the buy order and the sell order it fills are
\* the earliest submitted among the resting orders of their side at their
\* price: no later order at a price is filled while an earlier one rests.
PriceTimePriority ==
    AtMatch =>
        LET book == order_books[cur]
            buy  == HeapTop(book.buy_orders)
            sell == HeapTop(book.sell_orders)
        IN  /\ \A o \in Range(book.buy_orders) :
                  o.price = buy.price => buy.order_id <= o.order_id
            /\ \A o \in Range(book.sell_orders) :
                  o.price = sell.price => sell.order_id <= o.order_id

\* ---------------------------------------------------------------------------
\* More vocabulary: the match a step performs, seen from outside the loop
\* ---------------------------------------------------------------------------
TopBuy == HeapTop(order_books[cur].buy_orders)

TopSell == HeapTop(order_books[cur].sell_orders)

\* the record of the match the step has just added to the history
NewFill == fills'[Len(fills')]

\* the accounting a query would report for symbol s out of the map `books`
AccountingOf(books, s) ==
    IF s \in DOMAIN books
    THEN <<books[s].position_, books[s].average_price_, books[s].realized_pnl_>>
    ELSE <<0, RInt(0), RInt(0)>>

\* some resting order has been filled in part
SomePartialFill ==
    \E s \in DOMAIN order_books :
        \E o \in Range(order_books[s].buy_orders)
                 \cup Range(order_books[s].sell_orders) :
            o.quantity < submitted[o.order_id].quantity

\* the orders submitted so far, without their identifiers
Requests ==
    [i \in DOMAIN submitted |->
        <<submitted[i].symbol, submitted[i].price, submitted[i].quantity,
          submitted[i].is_buy>>]

\* ---------------------------------------------------------------------------
\* C3  Conservation of quantity
\* ---------------------------------------------------------------------------
\* C3: every match takes exactly the matched quantity off the top buy order
\* and exactly the matched quantity off the top sell order, so the total
\* remaining quantity of the book drops by twice the matched quantity; no
\* step of add_order's matching ever increases the total remaining quantity.
ConservationOfQuantity ==
    [][ /\ AtMatch =>
            LET before == order_books[cur]
                after  == order_books'[cur]
            IN  /\ Len(fills') = Len(fills) + 1
                /\ NewFill.quantity > 0
                /\ RemainingOf(after.buy_orders, TopBuy.order_id)
                      = TopBuy.quantity - NewFill.quantity
                /\ RemainingOf(after.sell_orders, TopSell.order_id)
                      = TopSell.quantity - NewFill.quantity
                /\ TotalRemaining(after)
                      = TotalRemaining(before) - 2 * NewFill.quantity
        /\ pc = "matching" =>
            TotalRemaining(order_books'[cur]) <= TotalRemaining(order_books[cur])
      ]_vars

\* a match has left one of its two orders resting with a reduced quantity
ConservationWitness ==
    /\ fills # <<>>
    /\ SomePartialFill

\* ---------------------------------------------------------------------------
\* C4  Matched quantity and matched price
\* ---------------------------------------------------------------------------
\* C4: the quantity of every match is the smaller of the two top orders'
\* remaining quantities and its price is the midpoint of their two prices.
MatchQuantityAndPrice ==
    [][ AtMatch =>
            /\ NewFill.buy_id = TopBuy.order_id
            /\ NewFill.sell_id = TopSell.order_id
            /\ NewFill.quantity \in {TopBuy.quantity, TopSell.quantity}
            /\ NewFill.quantity <= TopBuy.quantity
            /\ NewFill.quantity <= TopSell.quantity
            /\ RMul(NewFill.price, RInt(2)) = RInt(TopBuy.price + TopSell.price)
            /\ TotalRemaining(order_books'[cur])
                  = TotalRemaining(order_books[cur]) - 2 * NewFill.quantity
      ]_vars

\* a match between orders of different prices and different quantities
MatchQuantityAndPriceWitness ==
    \E i \in DOMAIN fills :
        /\ fills[i].price = Rat(205, 2)
        /\ submitted[fills[i].buy_id].quantity
              # submitted[fills[i].sell_id].quantity
        /\ fills[i].quantity = 50

\* ---------------------------------------------------------------------------
\* C5  Scenario: buy 100 @ 100, then sell 50 @ 105
\* ---------------------------------------------------------------------------
ScenarioDone ==
    /\ pc = "idle"
    /\ Requests = << <<"AAPL", 100, 100, TRUE>>, <<"AAPL", 105, 50, FALSE>> >>

ScenarioSwappedDone ==
    /\ pc = "idle"
    /\ Requests = << <<"AAPL", 105, 100, TRUE>>, <<"AAPL", 100, 50, FALSE>> >>

OneTradeAtMidpoint ==
    /\ Len(fills) = 1
    /\ fills[1].price = Rat(205, 2)
    /\ fills[1].quantity = 50
    /\ Len(order_books["AAPL"].buy_orders) = 1
    /\ order_books["AAPL"].buy_orders[1].order_id = 1
    /\ order_books["AAPL"].buy_orders[1].quantity = 50

SingleBuyGivesPosition ==
    (pc = "idle" /\ Len(submitted) = 1 /\ submitted[1].is_buy)
        => /\ get_position(submitted[1].symbol) = submitted[1].quantity
           /\ RLess(RInt(0), get_average_price(submitted[1].symbol))

\* ---------------------------------------------------------------------------
\* C8  Realized P&L moves only on closing fills
\* ---------------------------------------------------------------------------
\* C8: a match that opens a position from zero or increases its magnitude
\* leaves realized P&L unchanged; realized P&L is 0 after the first match on
\* a fresh book.
RealizedPnlOnlyOnClosing ==
    /\ [][ (AtMatch /\ Abs(order_books'[cur].position_)
                          >= Abs(order_books[cur].position_))
              => order_books'[cur].realized_pnl_ = order_books[cur].realized_pnl_
         ]_vars
    /\ [] (Len(fills) = 1 => get_realized_pnl(fills[1].symbol) = RInt(0))

\* ---------------------------------------------------------------------------
\* C9  Average cost on a fill that increases exposure
\* ---------------------------------------------------------------------------
\* C9: a match that increases |position| sets the average cost to
\* (avg_before * |position_before| + matched_price * matched_quantity)
\*    / (|position_before| + matched_quantity);
\* the first match on a fresh book, at price p, sets it to p.
AverageCostOnIncrease ==
    [][ (AtMatch /\ Abs(order_books'[cur].position_)
                       > Abs(order_books[cur].position_))
           => LET before == order_books[cur]
                  held   == Abs(before.position_)
              IN  order_books'[cur].average_price_ =
                     RDiv(RAdd(RMul(before.average_price_, RInt(held)),
                               RMul(NewFill.price, RInt(NewFill.quantity))),
                          RInt(held + NewFill.quantity))
      ]_vars

\* ---------------------------------------------------------------------------
\* C10  Average cost and realized P&L on a fill that reduces exposure
\* ---------------------------------------------------------------------------
\* C10: a match that reduces |position| leaves the average cost unchanged
\* and adds (matched_price - average cost before the match) * matched
\* quantity to realized P&L.
ClosingFillAccounting ==
    [][ (AtMatch /\ Abs(order_books'[cur].position_)
                       < Abs(order_books[cur].position_))
           => LET before == order_books[cur]
              IN  /\ order_books'[cur].average_price_ = before.average_price_
                  /\ order_books'[cur].realized_pnl_ =
                        RAdd(before.realized_pnl_,
                             RMul(RSub(NewFill.price, before.average_price_),
                                  RInt(NewFill.quantity)))
      ]_vars

\* ---------------------------------------------------------------------------
\* The read queries, as a client thread executes them
\* ---------------------------------------------------------------------------
\* OrderBook::get_unrealized_pnl once past its locks: the mid of the two best
\* prices, each 0.0 for an empty side, against the average price
BookUnrealizedPnl(book) ==
    LET mid_price == Rat(get_best_bid(book) + get_best_ask(book), 2)
    IN  RMul(RInt(book.position_), RSub(mid_price, book.average_price_))

\* what each getter of OrderBook returns, as a number
BookValue(op, book) ==
    CASE op = "get_position"       -> RInt(book.position_)
      [] op = "get_average_price"  -> book.average_price_
      [] op = "get_realized_pnl"   -> book.realized_pnl_
      [] op = "get_unrealized_pnl" -> BookUnrealizedPnl(book)

MissingBookValueNaN(op) == NonFinite

\* the `: 0` / `: 0.0` branch of the engine's queries
MissingBookValue(op) == RInt(0)

\* it != order_books.end()
FindBook(books, symbol) == symbol \in DOMAIN books

\* the query takes engine_mutex and looks the symbol up
QueryCall(op, symbol) ==
    /\ ~aborted
    /\ UNCHANGED <<threadVars, wrapperVars, frpVars>>
    /\ query.pc = "idle"
    /\ engine_mutex = "free"
    /\ engine_mutex' = "query"
    /\ query' = [pc |-> "locked", op |-> op, symbol |-> symbol, order_id |-> 0]
    /\ UNCHANGED <<order_books, book_mutex, pc, cur, next_id, submitted, fills>>
    /\ UNCHANGED <<lifeVars, subVars, ret>>

\* no book for the symbol: the neutral value is returned, the lock released
QueryMissing ==
    /\ ~aborted
    /\ UNCHANGED <<threadVars, wrapperVars, frpVars>>
    /\ query.pc = "locked"
    /\ ~FindBook(order_books, query.symbol)
    /\ ret' = [op |-> query.op, symbol |-> query.symbol, order_id |-> 0,
               value |-> MissingBookValue(query.op), ok |-> TRUE]
    /\ query' = NoCall
    /\ engine_mutex' = "free"
    /\ UNCHANGED <<order_books, book_mutex, pc, cur, next_id, submitted, fills>>
    /\ UNCHANGED <<lifeVars, subVars>>

\* the getter of the book takes book_mutex (its std::lock_guard)
QueryEnterBook ==
    /\ ~aborted
    /\ UNCHANGED <<threadVars, wrapperVars, frpVars>>
    /\ query.pc = "locked"
    /\ FindBook(order_books, query.symbol)
    /\ query.symbol \notin book_mutex
    /\ book_mutex' = book_mutex \cup {query.symbol}
    /\ query' = [query EXCEPT !.pc = "in_book"]
    /\ UNCHANGED <<order_books, engine_mutex, pc, cur, next_id, submitted, fills>>
    /\ UNCHANGED <<lifeVars, subVars, ret>>

\* get_unrealized_pnl calls get_best_bid, which locks the book_mutex its
\* caller already holds
ReacquiresBookLock(op) == op = "get_unrealized_pnl"

\* the getter returns its value and both locks are released.  For
\* get_unrealized_pnl this is the outcome of the second lock() in which the
\* call goes on (locking a std::mutex the thread owns is undefined)
QueryReturn ==
    /\ ~aborted
    /\ UNCHANGED <<threadVars, wrapperVars, frpVars>>
    /\ query.pc = "in_book"
    /\ ret' = [op |-> query.op, symbol |-> query.symbol, order_id |-> 0,
               value |-> BookValue(query.op, order_books[query.symbol]),
               ok |-> TRUE]
    /\ query' = NoCall
    /\ book_mutex' = book_mutex \ {query.symbol}
    /\ engine_mutex' = "free"
    /\ UNCHANGED <<order_books, pc, cur, next_id, submitted, fills>>
    /\ UNCHANGED <<lifeVars, subVars>>

\* the other outcome of the second lock(): the thread waits for itself for
\* ever, holding book_mutex and engine_mutex
QueryDeadlock ==
    /\ ~aborted
    /\ UNCHANGED <<threadVars, wrapperVars, frpVars>>
    /\ query.pc = "in_book"
    /\ ReacquiresBookLock(query.op)
    /\ query' = [query EXCEPT !.pc = "deadlocked"]
    /\ UNCHANGED <<order_books, engine_mutex, book_mutex, pc, cur, next_id,
                   submitted, fills>>
    /\ UNCHANGED <<lifeVars, subVars, ret>>

\* orders of one lot on one symbol, and queries on every symbol
NextQuery ==
    \/ \E symbol \in SubmitSymbols, price \in Prices,
          quantity \in LotQuantities, is_buy \in BOOLEAN :
            SubmitOrder(symbol, price, quantity, is_buy)
    \/ MatchStep
    \/ SubmitReturn
    \/ \E op \in QueryOps, symbol \in Symbols : QueryCall(op, symbol)
    \/ QueryMissing
    \/ QueryEnterBook
    \/ QueryReturn
    \/ QueryDeadlock

SpecQuery == Init /\ [][NextQuery]_vars


\* the client thread returns from a getter of an existing book in this step
QueryReturns == query.pc = "in_book" /\ query'.pc = "idle"

\* ---------------------------------------------------------------------------
\* C11  Unrealized P&L
\* ---------------------------------------------------------------------------
\* C11: get_unrealized_pnl on an existing book returns
\* position * ((best_bid + best_ask) / 2 - average_price) when both sides of
\* the book are non-empty, and 0 whenever either side is empty.
UnrealizedPnlTwoSidedOnly ==
    [][(QueryReturns /\ query.op = "get_unrealized_pnl") =>
          LET book == order_books[query.symbol]
              bid == HeapTop(book.buy_orders).price
              ask == HeapTop(book.sell_orders).price
          IN  ret'.value =
                IF book.buy_orders = <<>> \/ book.sell_orders = <<>>
                THEN RInt(0)
                ELSE RMul(RInt(book.position_),
                          RSub(Rat(bid + ask, 2), book.average_price_))]_vars

\* ---------------------------------------------------------------------------
\* C12  The book lock is taken once per call
\* ---------------------------------------------------------------------------
\* C12: no call holding a book's lock goes on to lock it again, so a
\* get_unrealized_pnl call on an existing book is never left waiting for
\* itself with the book lock and the engine lock held.
BookLockTakenOnce ==
    /\ query.pc = "in_book" => ~ReacquiresBookLock(query.op)
    /\ query.pc # "deadlocked"

\* ---------------------------------------------------------------------------
\* C13  Queries for an unknown symbol
\* ---------------------------------------------------------------------------
\* C13: a read query for a symbol that never received an order goes from the
\* lookup straight to its return, returns 0 without error, releases the
\* engine lock, and changes nothing of the engine: no book is created.
UnknownSymbolQuery ==
    [][LET symbol == IF query.pc = "idle" THEN query'.symbol ELSE query.symbol
       IN  (query' # query /\ symbol \notin DOMAIN order_books) =>
              /\ order_books' = order_books
              /\ book_mutex' = book_mutex
              /\ UNCHANGED <<running, tick_pc, market_data_callbacks, trade_callbacks>>
              /\ query.pc = "idle" => query'.pc = "locked"
              /\ query.pc = "locked" =>
                    /\ query'.pc = "idle"
                    /\ engine_mutex' = "free"
                    /\ ret'.op = query.op /\ ret'.symbol = query.symbol
                    /\ ret'.ok
                    /\ ret'.value = RInt(0)]_vars

\* get_unrealized_pnl has returned 0 for a symbol without a book, while another
\* symbol holds a position
UnknownSymbolQueryWitness ==
    /\ query.pc = "idle"
    /\ ret.op = "get_unrealized_pnl" /\ ret.symbol = "MSFT"
    /\ ret.value = RInt(0)
    /\ "MSFT" \notin DOMAIN order_books
    /\ "AAPL" \in DOMAIN order_books
    /\ order_books["AAPL"].position_ > 0

\* ---------------------------------------------------------------------------
\* Engine lifecycle: start, stop, the market data thread, subscriptions
\* ---------------------------------------------------------------------------
\* std::unordered_map: insert or overwrite a key, erase a key
MapPut(m, k, v) == [x \in DOMAIN m \cup {k} |-> IF x = k THEN v ELSE m[x]]

\* mutant: erase drops every key
MapEraseAll(m, k) == <<>>

MapErase(m, k) == [x \in DOMAIN m \ {k} |-> m[x]]

\* callbacks[symbol].push_back(callback), operator[] creating the entry
PushBackCallback(callbacks, symbol, listener) ==
    MapPut(callbacks, symbol,
           IF symbol \in DOMAIN callbacks
           THEN Append(callbacks[symbol], listener)
           ELSE <<listener>>)

RECURSIVE SumLen(_, _)
SumLen(m, keys) ==
    IF keys = {} THEN 0
    ELSE LET k == CHOOSE x \in keys : TRUE
         IN  Len(m[k]) + SumLen(m, keys \ {k})

\* the registrations alive in both registries
Subscriptions ==
    SumLen(market_data_callbacks, DOMAIN market_data_callbacks)
    + SumLen(trade_callbacks, DOMAIN trade_callbacks)

\* market_data_thread.joinable()
Joinable == tick_pc # "none"

\* ExecutionEngine::start: running = true, then a new std::thread is
\* move-assigned to market_data_thread; assigning to a joinable std::thread
\* calls std::terminate
StartEngine ==
    /\ ~aborted
    /\ UNCHANGED <<threadVars, wrapperVars, frpVars>>
    /\ running' = TRUE
    /\ IF Joinable
       THEN aborted' = TRUE /\ tick_pc' = tick_pc /\ generators' = generators
       ELSE aborted' = aborted /\ tick_pc' = "loop" /\ generators' = <<>>
    /\ stop_returned' = FALSE
    /\ UNCHANGED <<bookVars, subVars, clientVars, stop_pc, delivered, stop_result, cycles>>

StopTargetAlwaysJoin(was_running, joinable) == "joining"

\* if (running.exchange(false) && market_data_thread.joinable()): where the
\* caller goes next, into join() or back to "idle"
StopTarget(was_running, joinable) ==
    IF was_running /\ joinable THEN "joining" ELSE "idle"

\* ExecutionEngine::stop up to join(): the exchange and the test; when the
\* test fails the call returns at once
StopCall(t) ==
    /\ ~aborted
    /\ UNCHANGED <<threadVars, wrapperVars, frpVars>>
    /\ stop_pc[t] = "idle"
    /\ running' = FALSE
    /\ LET target == StopTarget(running, Joinable)
       IN  /\ stop_pc' = [stop_pc EXCEPT ![t] = target]
           /\ stop_returned' = (stop_returned \/ target = "idle")
           /\ stop_result' = IF target = "idle" THEN "noop" ELSE stop_result
    /\ UNCHANGED <<bookVars, subVars, clientVars, tick_pc, aborted, delivered,
                   generators, cycles>>

\* market_data_thread.join() returns once the thread function has returned
StopJoin(t) ==
    /\ ~aborted
    /\ UNCHANGED <<threadVars, wrapperVars, frpVars>>
    /\ stop_pc[t] = "joining"
    /\ tick_pc = "exited"
    /\ tick_pc' = "none"
    /\ stop_pc' = [stop_pc EXCEPT ![t] = "idle"]
    /\ stop_result' = "joined"
    /\ stop_returned' = TRUE
    /\ UNCHANGED <<bookVars, subVars, clientVars, running, aborted, delivered,
                   generators, cycles>>

\* market_data_thread_func: while (running)
TickLoop ==
    /\ ~aborted
    /\ UNCHANGED <<threadVars, wrapperVars, frpVars>>
    /\ tick_pc = "loop"
    /\ tick_pc' = IF running THEN "want_lock" ELSE "exited"
    /\ UNCHANGED <<bookVars, subVars, clientVars, running, stop_pc, aborted,
                   stop_returned, delivered, stop_result, generators, cycles>>

\* market_data_thread_func: std::lock_guard on engine_mutex
TickLock ==
    /\ ~aborted
    /\ UNCHANGED <<threadVars, wrapperVars, frpVars>>
    /\ tick_pc = "want_lock"
    /\ engine_mutex = "free"
    /\ cycles < MaxCycles
    /\ engine_mutex' = "tick"
    /\ tick_pc' = "publishing"
    /\ UNCHANGED <<order_books, book_mutex, pc, cur, next_id, submitted, fills>>
    /\ UNCHANGED <<subVars, clientVars, running, stop_pc, aborted,
                   stop_returned, delivered, stop_result, generators, cycles>>

\* the orders in which a range-for may visit the keys of an unordered_map
Perms(S) ==
    {f \in [1..Cardinality(S) -> S] : \A i, j \in DOMAIN f : f[i] = f[j] => i = j}

\* the first callback of the vector that throws, 0 if none does
FirstThrow(callbacks) ==
    IF \E i \in DOMAIN callbacks : callbacks[i] \in ThrowingListeners
    THEN CHOOSE i \in DOMAIN callbacks :
            /\ callbacks[i] \in ThrowingListeners
            /\ \A j \in 1..(i - 1) : callbacks[j] \notin ThrowingListeners
    ELSE 0

\* mutant: a fresh tick is generated for every callback
NextPriceDrifts(price, change, i) == RMul(price, Rat(100 + i * change, 100))

\* MarketDataGenerator::generate: price_ *= (1.0 + change * 0.01); the tick
\* handed to the i-th callback of the symbol is the one generated before the
\* inner loop
NextPrice(price, change, i) == RMul(price, Rat(100 + change, 100))

\* the inner loop: callback(data) for each callback in vector order, up to
\* and including the first one that throws
PublishSymbol(callbacks, symbol, price, change) ==
    LET k == FirstThrow(callbacks)
        n == IF k = 0 THEN Len(callbacks) ELSE k
    IN  [calls |-> [i \in 1..n |->
                      [listener |-> callbacks[i],
                       data |-> [symbol |-> symbol,
                                 price |-> NextPrice(price, change, i),
                                 volume |-> TickVolume]]],
         threw |-> k # 0]

\* mutant: every tick starts again from the default price
GeneratorPriceReset(gens, symbol) == RInt(DefaultPrice)

\* the price_ of the generator of the symbol: generators.find, and
\* MarketDataGenerator(symbol) at the default price when it is absent
GeneratorPrice(gens, symbol) ==
    IF symbol \in DOMAIN gens THEN gens[symbol] ELSE RInt(DefaultPrice)

RECURSIVE PublishCycle(_, _, _, _)
\* the outer loop over market_data_callbacks, visiting the symbols in `order`:
\* the generator of a symbol is created at the default price when absent
PublishCycle(order, gens, change, registry) ==
    IF order = <<>>
    THEN [generators |-> gens, calls |-> <<>>, threw |-> FALSE]
    ELSE LET symbol == Head(order)
             price == GeneratorPrice(gens, symbol)
             here == PublishSymbol(registry[symbol], symbol, price, change[symbol])
             gens1 == MapPut(gens, symbol, NextPrice(price, change[symbol], 1))
         IN  IF here.threw
             THEN [generators |-> gens1, calls |-> here.calls, threw |-> TRUE]
             ELSE LET rest == PublishCycle(Tail(order), gens1, change, registry)
                  IN  [generators |-> rest.generators,
                       calls |-> here.calls \o rest.calls,
                       threw |-> rest.threw]

\* market_data_thread_func, the body of the loop: the keys of
\* market_data_callbacks are visited in the relative order they have in
\* `order`, every callback of every key is invoked under engine_mutex, then the lock is released
\* and the thread sleeps.  Nothing catches an exception of a callback: it
\* leaves the thread function and std::terminate is called
TickPublish(order, change) ==
    /\ ~aborted
    /\ UNCHANGED <<threadVars, wrapperVars, frpVars>>
    /\ tick_pc = "publishing"
    /\ LET visited == SelectSeq(order, LAMBDA s : s \in DOMAIN market_data_callbacks)
           cycle == PublishCycle(visited, generators, change, market_data_callbacks)
       IN  /\ delivered' = cycle.calls
           /\ generators' = cycle.generators
           /\ IF cycle.threw
              THEN /\ aborted' = TRUE
                   /\ UNCHANGED <<engine_mutex, tick_pc>>
              ELSE /\ aborted' = aborted
                   /\ engine_mutex' = "free"
                   /\ tick_pc' = "loop"
    /\ cycles' = cycles + 1
    /\ UNCHANGED <<order_books, book_mutex, pc, cur, next_id, submitted, fills>>
    /\ UNCHANGED <<subVars, clientVars, running, stop_pc, stop_returned, stop_result>>

\* ExecutionEngine::subscribe_market_data
SubscribeMarketData(symbol, listener) ==
    /\ ~aborted
    /\ UNCHANGED <<threadVars, wrapperVars, frpVars>>
    /\ engine_mutex = "free"
    /\ Subscriptions < MaxSubscriptions
    /\ market_data_callbacks' =
          PushBackCallback(market_data_callbacks, symbol, listener)
    /\ UNCHANGED <<bookVars, lifeVars, clientVars, trade_callbacks, trade_received>>

\* ExecutionEngine::unsubscribe_market_data
UnsubscribeMarketData(symbol) ==
    /\ ~aborted
    /\ UNCHANGED <<threadVars, wrapperVars, frpVars>>
    /\ engine_mutex = "free"
    /\ market_data_callbacks' = MapErase(market_data_callbacks, symbol)
    /\ UNCHANGED <<bookVars, lifeVars, clientVars, trade_callbacks, trade_received>>

\* submit_order for a sell on a book without buys: the order rests
SubmitRestingSell(price, quantity) ==
    /\ next_id < MaxLifeOrders
    /\ SubmitOrder("AAPL", price, quantity, FALSE)

\* a resting sell order, get_unrealized_pnl, a market-data listener and the
\* lifecycle calls, from concurrent threads; with sells alone no match runs
NextLife ==
    \/ StartEngine
    \/ \E t \in StopCallers : StopCall(t)
    \/ \E t \in StopCallers : StopJoin(t)
    \/ TickLoop
    \/ TickLock
    \/ \E order \in Perms(Symbols), change \in [Symbols -> {0}] :
          TickPublish(order, change)
    \/ SubscribeMarketData("AAPL", "l1")
    \/ UnsubscribeMarketData("AAPL")
    \/ \E price \in Prices, quantity \in LotQuantities :
          SubmitRestingSell(price, quantity)
    \/ SubmitReturn
    \/ QueryCall("get_unrealized_pnl", "AAPL")
    \/ QueryMissing
    \/ QueryEnterBook
    \/ QueryReturn
    \/ QueryDeadlock

SpecLife == Init /\ [][NextLife]_vars

\* what a lifecycle call must leave alone when it is a no-op
EngineState ==
    <<order_books, engine_mutex, book_mutex, running, tick_pc, aborted,
      market_data_callbacks, trade_callbacks>>

\* a publish cycle runs in this step
PublishStep == cycles' = cycles + 1

\* the publish cycle run in this step invokes at least one listener
ListenerInvoked == PublishStep /\ delivered' # <<>>

\* the market data thread waits for engine_mutex, whose holder waits for itself
TickThreadStuck ==
    /\ tick_pc = "want_lock"
    /\ engine_mutex = "query"
    /\ query.pc = "deadlocked"

\* ---------------------------------------------------------------------------
\* C14  start() is idempotent
\* ---------------------------------------------------------------------------
\* C14: no sequence of start() and stop() calls aborts the process: a start()
\* on a running engine is a no-op that leaves the one tick thread in place.
StartIdempotent == ~aborted

\* ---------------------------------------------------------------------------
\* C15  stop() is idempotent
\* ---------------------------------------------------------------------------
\* C15: a stop() called while the engine is not running never enters join()
\* (it returns at once), and a stop() that returns without joining leaves the
\* engine state as it found it.
StopOnStoppedEngine ==
    [][/\ \A t \in StopCallers :
             (~running /\ stop_pc[t] = "idle") => stop_pc'[t] = "idle"
       /\ (/\ stop_result' = "noop" /\ stop_returned'
           /\ (stop_result # "noop" \/ ~stop_returned)
           /\ ~running)
             => EngineState' = EngineState]_vars

\* the last stop() to return found nothing to join, on an engine that had
\* published ticks and whose thread an earlier stop() had joined
StopOnStoppedEngineWitness ==
    /\ stop_result = "noop"
    /\ stop_returned
    /\ \A t \in StopCallers : stop_pc[t] = "idle"
    /\ ~running
    /\ tick_pc = "none"
    /\ delivered # <<>>

\* ---------------------------------------------------------------------------
\* C16  stop() returns only once the tick thread has exited
\* ---------------------------------------------------------------------------
\* C16: at the moment a stop() returns the market data thread has exited, and
\* no market-data listener is invoked between the return of a stop() and the
\* next start().
StopWaitsForTickThread ==
    [][/\ (stop_returned' /\ ~stop_returned) => tick_pc' = "none"
       /\ ListenerInvoked => ~stop_returned]_vars

\* ---------------------------------------------------------------------------
\* C17  stop() does not block for ever
\* ---------------------------------------------------------------------------
\* C17: a stop() waiting in join() is never waiting for a market data thread
\* that can no longer advance.
StopNeverStuck ==
    (\E t \in StopCallers : stop_pc[t] = "joining") => ~TickThreadStuck

\* ---------------------------------------------------------------------------
\* Trade listeners and cancel_order
\* ---------------------------------------------------------------------------
\* ExecutionEngine::subscribe_trades
SubscribeTrades(symbol, listener) ==
    /\ ~aborted
    /\ UNCHANGED <<threadVars, wrapperVars, frpVars>>
    /\ engine_mutex = "free"
    /\ Subscriptions < MaxSubscriptions
    /\ trade_callbacks' = PushBackCallback(trade_callbacks, symbol, listener)
    /\ UNCHANGED <<bookVars, lifeVars, clientVars, market_data_callbacks, trade_received>>

\* ExecutionEngine::unsubscribe_trades
UnsubscribeTrades(symbol) ==
    /\ ~aborted
    /\ UNCHANGED <<threadVars, wrapperVars, frpVars>>
    /\ engine_mutex = "free"
    /\ trade_callbacks' = MapErase(trade_callbacks, symbol)
    /\ UNCHANGED <<bookVars, lifeVars, clientVars, market_data_callbacks, trade_received>>

\* cancel_order of the bindings is entered; it takes no lock
CancelCall(order_id) ==
    /\ ~aborted
    /\ UNCHANGED <<threadVars, wrapperVars, frpVars>>
    /\ query.pc = "idle"
    /\ query' = [pc |-> "cancel", op |-> "cancel_order", symbol |-> "",
                 order_id |-> order_id]
    /\ UNCHANGED <<bookVars, lifeVars, subVars, ret>>

\* cancel_order of the bindings: "Not implemented yet", return false
CancelReturn ==
    /\ ~aborted
    /\ UNCHANGED <<threadVars, wrapperVars, frpVars>>
    /\ query.pc = "cancel"
    /\ ret' = [op |-> "cancel_order", symbol |-> "", order_id |-> query.order_id,
               value |-> RInt(0), ok |-> FALSE]
    /\ query' = NoCall
    /\ UNCHANGED <<bookVars, lifeVars, subVars>>

\* one-lot orders on one symbol, trade listeners, cancel_order
NextApi ==
    \/ \E symbol \in SubmitSymbols, price \in Prices,
          quantity \in LotQuantities, is_buy \in BOOLEAN :
            SubmitOrder(symbol, price, quantity, is_buy)
    \/ MatchStep
    \/ SubmitReturn
    \/ \E listener \in Listeners : SubscribeTrades("AAPL", listener)
    \/ UnsubscribeTrades("AAPL")
    \/ \E order_id \in 1..MaxOrders : CancelCall(order_id)
    \/ CancelReturn

SpecApi == Init /\ [][NextApi]_vars

\* the order `id` rests in some book
IsResting(books, id) ==
    \E s \in DOMAIN books :
        \E o \in Range(books[s].buy_orders) \cup Range(books[s].sell_orders) :
            o.order_id = id

\* the trade listeners registered for a symbol
TradeListeners(symbol) ==
    IF symbol \in DOMAIN trade_callbacks
    THEN Range(trade_callbacks[symbol])
    ELSE {}

\* ---------------------------------------------------------------------------
\* C18  Every match is published to the trade listeners
\* ---------------------------------------------------------------------------
\* C18: when submit_order returns, every match it executed has been handed,
\* once, to every trade listener registered for the symbol, as a trade with
\* the symbol, price and quantity of the match.
TradePublished ==
    [][(pc = "matching" /\ pc' = "idle") =>
          \A i \in DOMAIN fills :
              fills[i].call = next_id =>
                  \A l \in TradeListeners(cur) :
                      Cardinality({j \in DOMAIN trade_received' :
                          /\ trade_received'[j].listener = l
                          /\ trade_received'[j].symbol = fills[i].symbol
                          /\ trade_received'[j].price = fills[i].price
                          /\ trade_received'[j].quantity = fills[i].quantity
                          /\ trade_received'[j].buy_id = fills[i].buy_id
                          /\ trade_received'[j].sell_id = fills[i].sell_id}) = 1]_vars

\* ---------------------------------------------------------------------------
\* C19  cancel_order
\* ---------------------------------------------------------------------------
\* C19: a cancel_order(id) made while no submit_order is running returns true
\* exactly when the order rests in a book, and then the order has left the
\* book; for a filled or never issued id it returns false.
CancelRestingOrder ==
    [][(query.pc = "cancel" /\ query'.pc = "idle" /\ pc = "idle") =>
          /\ ret'.ok = IsResting(order_books, query.order_id)
          /\ ~IsResting(order_books', query.order_id)]_vars

\* ---------------------------------------------------------------------------
\* C20  Invalid orders are rejected
\* ---------------------------------------------------------------------------
\* C20: an order with a non-positive price or quantity is rejected before it
\* reaches the book: no such order is ever passed to add_order, and none
\* rests in a book.
InvalidOrderNeverEnters ==
    /\ \A i \in DOMAIN submitted :
          submitted[i].price > 0 /\ submitted[i].quantity > 0
    /\ \A s \in DOMAIN order_books :
          \A o \in Range(order_books[s].buy_orders)
                      \cup Range(order_books[s].sell_orders) :
              o.price > 0 /\ o.quantity > 0

\* ---------------------------------------------------------------------------
\* Vocabulary of the accounting and loop properties
\* ---------------------------------------------------------------------------
RECURSIVE SumFills(_, _)
\* the matched quantities of the matches of a symbol, added up
SumFills(fs, symbol) ==
    IF fs = <<>> THEN 0
    ELSE (IF fs[1].symbol = symbol THEN fs[1].quantity ELSE 0)
         + SumFills(Tail(fs), symbol)

\* the orders resting in a book
RestingCount(book) == Len(book.buy_orders) + Len(book.sell_orders)

\* a match is executed in this step
Matches == Len(fills') = Len(fills) + 1

\* ---------------------------------------------------------------------------
\* C28  Position counts the matched volume
\* ---------------------------------------------------------------------------
\* C28: with orders of positive quantity, after every step the position of
\* each book equals the sum of the matched quantities of all its matches so
\* far, whichever side the incoming order was on; it is never negative and
\* never decreases.
PositionIsMatchedVolume ==
    [][\A s \in DOMAIN order_books' :
          LET position == order_books'[s].position_
          IN  /\ position = SumFills(fills', s)
              /\ position >= 0
              /\ s \in DOMAIN order_books =>
                    position >= order_books[s].position_]_vars

\* one match was completed by an incoming buy and another by an incoming sell
PositionWitness ==
    /\ pc = "idle"
    /\ cur \in DOMAIN order_books
    /\ \E i, j \in DOMAIN fills :
          /\ fills[i].call = fills[i].buy_id
          /\ fills[j].call = fills[j].sell_id
    /\ order_books[cur].position_ = SumFills(fills, cur)
    /\ order_books[cur].position_ > 0

\* ---------------------------------------------------------------------------
\* C29  A flat book has no average cost and no realized P&L
\* ---------------------------------------------------------------------------
\* C29: with orders of positive price and quantity, in every state a book
\* whose position is 0 has average price 0 and realized P&L 0; the average
\* price is non-zero only while the position is non-zero.
FlatBookIsClean ==
    \A s \in DOMAIN order_books :
        LET book == order_books[s]
        IN  /\ book.position_ = 0 =>
                  /\ book.average_price_ = RInt(0)
                  /\ book.realized_pnl_ = RInt(0)
            /\ book.average_price_ # RInt(0) => book.position_ # 0

\* a flat two-sided book next to nothing matched, reached after several calls
FlatBookWitness ==
    /\ pc = "idle"
    /\ next_id >= 2
    /\ cur \in DOMAIN order_books
    /\ order_books[cur].position_ = 0
    /\ order_books[cur].buy_orders # <<>>
    /\ order_books[cur].sell_orders # <<>>

\* ---------------------------------------------------------------------------
\* C30  The matching loop terminates
\* ---------------------------------------------------------------------------
\* C30: every iteration of the loop that matches removes at least one order
\* from the book, an order whose remaining quantity was the matched quantity;
\* and the loop stops as soon as a side is empty or the top prices no longer
\* cross.
MatchingLoopTerminates ==
    [][/\ Matches =>
            LET book == order_books[cur]
                matched == NewFill.quantity
            IN  /\ RestingCount(order_books'[cur]) < RestingCount(book)
                /\ \/ /\ HeapTop(book.buy_orders).quantity = matched
                      /\ Len(order_books'[cur].buy_orders)
                            = Len(book.buy_orders) - 1
                   \/ /\ HeapTop(book.sell_orders).quantity = matched
                      /\ Len(order_books'[cur].sell_orders)
                            = Len(book.sell_orders) - 1
       /\ (/\ pc = "matching"
           /\ \/ order_books[cur].buy_orders = <<>>
              \/ order_books[cur].sell_orders = <<>>
              \/ HeapTop(order_books[cur].buy_orders).price
                    < HeapTop(order_books[cur].sell_orders).price)
             => (pc' = "idle" /\ fills' = fills)]_vars

\* a call whose loop ran two iterations before it stopped
MatchingLoopWitness ==
    /\ pc = "idle"
    /\ Cardinality({i \in DOMAIN fills : fills[i].call = next_id}) >= 2

\* ---------------------------------------------------------------------------
\* Market data publication
\* ---------------------------------------------------------------------------
\* market-data listeners of two symbols, one of which throws, and the market
\* data thread of an engine that is started and not stopped
NextTick ==
    \/ StartEngine
    \/ TickLoop
    \/ TickLock
    \/ \E order \in Perms(Symbols), change \in [Symbols -> Changes] :
          TickPublish(order, change)
    \/ \E listener \in Listeners \cup ThrowingListeners :
          SubscribeMarketData("AAPL", listener)
    \/ SubscribeMarketData("MSFT", "l1")
    \/ \E symbol \in Symbols : UnsubscribeMarketData(symbol)

SpecTick == Init /\ [][NextTick]_vars

\* the invocations of a cycle that carry a tick of the symbol, in order
CallsFor(calls, symbol) ==
    SelectSeq(calls, LAMBDA c : c.data.symbol = symbol)

\* some registered market-data listener throws
ThrowerRegistered ==
    \E s \in DOMAIN market_data_callbacks :
        \E i \in DOMAIN market_data_callbacks[s] :
            market_data_callbacks[s][i] \in ThrowingListeners

\* ---------------------------------------------------------------------------
\* C21  Listeners run outside the engine's locks
\* ---------------------------------------------------------------------------
\* C21: whenever a publish cycle invokes a listener, the publishing thread
\* holds neither engine_mutex nor any book lock.
ListenersRunUnlocked ==
    [][ListenerInvoked => (engine_mutex = "free" /\ book_mutex = {})]_vars

\* ---------------------------------------------------------------------------
\* C23  A throwing listener is contained
\* ---------------------------------------------------------------------------
\* C23: a publish cycle over a registry that holds a throwing listener still
\* invokes every registered listener, leaves the process and the market data
\* thread alive, releases engine_mutex and leaves the registry as it was.
ThrowingListenerContained ==
    [][(PublishStep /\ ThrowerRegistered) =>
          /\ ~aborted'
          /\ tick_pc' = "loop"
          /\ engine_mutex' = "free"
          /\ market_data_callbacks' = market_data_callbacks
          /\ \A s \in DOMAIN market_data_callbacks :
                Len(CallsFor(delivered', s)) = Len(market_data_callbacks[s])]_vars

MapLockFreeWhileMatching ==
    pc = "matching" =>
        /\ engine_mutex = "free"
        /\ query.pc = "idle" => ENABLED QueryCall("get_position", "MSFT")

\* ---------------------------------------------------------------------------
\* C25  Market data keeps flowing
\* ---------------------------------------------------------------------------
\* C25: while the engine is running and a symbol has a market-data
\* subscriber, the market data thread is never left waiting for a lock that
\* will not be released.
MarketDataKeepsFlowing ==
    (/\ running
     /\ ~aborted
     /\ \E s \in DOMAIN market_data_callbacks : market_data_callbacks[s] # <<>>)
        => ~TickThreadStuck

\* ---------------------------------------------------------------------------
\* submit_order and get_position called by several threads on several engines
\* ---------------------------------------------------------------------------
\* mutant: lock() succeeds whoever holds the mutex
CanLockAlways(holder) == TRUE

\* std::lock_guard can take a std::mutex only while nobody holds it
CanLock(holder) == holder = "free"

\* submit_order: lock_guard on the engine's engine_mutex, try_emplace
TLock(t, symbol, price, quantity, is_buy) ==
    LET e == EngineOf(t)
    IN  /\ tpc[t] = "idle"
        /\ Len(engines["e1"].history) + Len(engines["e2"].history)
             + Cardinality({u \in Threads : tpc[u] \in {"locked", "in_gen", "have_id"}})
             < MaxThreadOrders
        /\ CanLock(engines[e].mutex)
        /\ engines' = [engines EXCEPT ![e].mutex = t,
                                      ![e].books = TryEmplace(@, symbol)]
        /\ treq' = [treq EXCEPT ![t] = Order(0, symbol, price, quantity, is_buy)]
        /\ tpc' = [tpc EXCEPT ![t] = "locked"]
        /\ UNCHANGED <<tlocal, rng, tread>>
        /\ UNCHANGED <<bookVars, lifeVars, subVars, clientVars, wrapperVars, frpVars>>

\* generate_order_id is entered: the static generator is read, under no lock
\* of its own
TGenEnter(t) ==
    /\ tpc[t] = "locked"
    /\ tlocal' = [tlocal EXCEPT ![t] = rng]
    /\ tpc' = [tpc EXCEPT ![t] = "in_gen"]
    /\ UNCHANGED <<engines, treq, rng, tread>>
    /\ UNCHANGED <<bookVars, lifeVars, subVars, clientVars, wrapperVars, frpVars>>

\* generate_order_id returns: the generator is written back advanced, and the
\* identifier is the one that follows the state that was read
TGenLeave(t) ==
    /\ tpc[t] = "in_gen"
    /\ rng' = tlocal[t] + 1
    /\ treq' = [treq EXCEPT ![t].order_id = tlocal[t] + 1]
    /\ tpc' = [tpc EXCEPT ![t] = "have_id"]
    /\ UNCHANGED <<engines, tlocal, tread>>
    /\ UNCHANGED <<bookVars, lifeVars, subVars, clientVars, wrapperVars, frpVars>>

\* OrderBook::add_order: lock_guard on book_mutex, the insertion
TAddOrder(t) ==
    LET e == EngineOf(t)
        symbol == treq[t].symbol
    IN  /\ tpc[t] = "have_id"
        /\ CanLock(IF symbol \in engines[e].book_locks THEN "held" ELSE "free")
        /\ engines' = [engines EXCEPT
                          ![e].books[symbol] = InsertOrder(@, treq[t]),
                          ![e].book_locks = @ \cup {symbol},
                          ![e].history = Append(@, [order |-> treq[t], thread |-> t])]
        /\ tpc' = [tpc EXCEPT ![t] = "matching"]
        /\ UNCHANGED <<treq, tlocal, rng, tread>>
        /\ UNCHANGED <<bookVars, lifeVars, subVars, clientVars, wrapperVars, frpVars>>

\* one iteration of match_orders that matches
TMatch(t) ==
    LET e == EngineOf(t)
        symbol == treq[t].symbol
    IN  /\ tpc[t] = "matching"
        /\ CanMatch(engines[e].books[symbol])
        /\ engines' = [engines EXCEPT ![e].books[symbol] = MatchOnce(@)]
        /\ UNCHANGED <<tpc, treq, tlocal, rng, tread>>
        /\ UNCHANGED <<bookVars, lifeVars, subVars, clientVars, wrapperVars, frpVars>>

\* the loop ends, add_order and submit_order return, both locks are released
TReturn(t) ==
    LET e == EngineOf(t)
        symbol == treq[t].symbol
    IN  /\ tpc[t] = "matching"
        /\ ~CanMatch(engines[e].books[symbol])
        /\ engines' = [engines EXCEPT ![e].mutex = "free",
                                      ![e].book_locks = @ \ {symbol}]
        /\ tpc' = [tpc EXCEPT ![t] = "idle"]
        /\ treq' = [treq EXCEPT ![t] = NoOrder]
        /\ UNCHANGED <<tlocal, rng, tread>>
        /\ UNCHANGED <<bookVars, lifeVars, subVars, clientVars, wrapperVars, frpVars>>

\* ExecutionEngine::get_position: engine_mutex, find, and for a book that
\* exists OrderBook::get_position: book_mutex, the read; both locks released
TGetPosition(t, symbol) ==
    LET e == EngineOf(t)
    IN  /\ tpc[t] = "idle"
        /\ CanLock(engines[e].mutex)
        /\ CanLock(IF symbol \in engines[e].book_locks THEN "held" ELSE "free")
        /\ tread' = [tread EXCEPT ![t] =
              [position |-> IF symbol \in DOMAIN engines[e].books
                            THEN engines[e].books[symbol].position_ ELSE 0,
               seen |-> Len(engines[e].history)]]
        /\ UNCHANGED <<engines, tpc, treq, tlocal, rng>>
        /\ UNCHANGED <<bookVars, lifeVars, subVars, clientVars, wrapperVars, frpVars>>

\* three threads, two engines, one symbol
NextThreads ==
    \/ \E t \in Threads, price \in Prices, quantity \in LotQuantities,
          is_buy \in BOOLEAN : TLock(t, "AAPL", price, quantity, is_buy)
    \/ \E t \in Threads : TGenEnter(t)
    \/ \E t \in Threads : TGenLeave(t)
    \/ \E t \in Threads : TAddOrder(t)
    \/ \E t \in Threads : TMatch(t)
    \/ \E t \in Threads : TReturn(t)
    \/ \E t \in Threads : TGetPosition(t, "AAPL")

SpecThreads == Init /\ [][NextThreads]_vars


\* match_orders run to its end on one book
RECURSIVE MatchAll(_)
MatchAll(book) == IF CanMatch(book) THEN MatchAll(MatchOnce(book)) ELSE book

\* the submit_order calls of `history` executed one after the other, each to
\* its end, on the books `books`
RECURSIVE Replay(_, _)
Replay(history, books) ==
    IF history = <<>> THEN books
    ELSE LET order == Head(history).order
             emplaced == TryEmplace(books, order.symbol)
         IN  Replay(Tail(history),
                    [emplaced EXCEPT ![order.symbol] =
                        MatchAll(InsertOrder(@, order))])

\* get_position on the books `books`
PositionOf(books, symbol) ==
    IF symbol \in DOMAIN books THEN books[symbol].position_ ELSE 0

\* the books of engine e are those of its submit_order calls run one after
\* the other in the order of their insertions; a book that a call in progress
\* has emplaced and not yet inserted into is empty
BooksAreSequential(e) ==
    LET sequential == Replay(engines[e].history, <<>>)
    IN  /\ DOMAIN sequential \subseteq DOMAIN engines[e].books
        /\ \A symbol \in DOMAIN engines[e].books :
              engines[e].books[symbol] =
                 IF symbol \in DOMAIN sequential THEN sequential[symbol]
                 ELSE NewOrderBook(symbol)

\* the threads of engine e that are inside add_order, after the insertion
InsideBook(e) == {t \in Threads : EngineOf(t) = e /\ tpc[t] = "matching"}

\* the threads inside generate_order_id
InsideGenerator == {t \in Threads : tpc[t] = "in_gen"}

\* C26: no two calls of generate_order_id use the static random generator at
\* the same time, whichever engines and threads make them
GeneratorNeverShared == Cardinality(InsideGenerator) <= 1

\* C27: on each engine at most one thread is inside the insertion and matching
\* of a book; whenever no add_order is in progress the books are those of the
\* submit_order calls run one after the other in the order of their
\* insertions; and each get_position returned the position after a prefix of
\* that order
SubmitsAreAtomic ==
    /\ \A e \in Engines :
          /\ Cardinality(InsideBook(e)) <= 1
          /\ InsideBook(e) = {} => BooksAreSequential(e)
    /\ \A t \in Threads :
          /\ tread[t].seen <= Len(engines[EngineOf(t)].history)
          /\ tread[t].position =
                PositionOf(Replay(SubSeq(engines[EngineOf(t)].history, 1, tread[t].seen),
                                  <<>>), "AAPL")

\* t1 and t2 both submitted to engine e1, the two orders matched, t2 read the
\* position between the two calls, and t1 is still inside add_order
SubmitsAreAtomicWitness ==
    /\ Len(engines["e1"].history) = 2
    /\ engines["e1"].history[1].thread # engines["e1"].history[2].thread
    /\ engines["e1"].books["AAPL"].position_ = 100
    /\ InsideBook("e1") = {"t1"}
    /\ tread["t2"] = [position |-> 0, seen |-> 1]

\* ---------------------------------------------------------------------------
\* C31  Unsubscribing drops the listeners of one symbol and nothing else
\* ---------------------------------------------------------------------------
\* both registries, two symbols, and the market data thread of a started engine
NextSubs ==
    \/ StartEngine
    \/ TickLoop
    \/ TickLock
    \/ \E order \in Perms(Symbols), change \in [Symbols -> {1}] :
          TickPublish(order, change)
    \/ \E symbol \in Symbols, listener \in Listeners :
          SubscribeMarketData(symbol, listener)
    \/ \E symbol \in Symbols : UnsubscribeMarketData(symbol)
    \/ \E symbol \in Symbols : SubscribeTrades(symbol, "l1")
    \/ \E symbol \in Symbols : UnsubscribeTrades(symbol)

SpecSubs == Init /\ [][NextSubs]_vars

\* a step that removes the key `symbol` from the registry
Dropped(registry, registry1, symbol) ==
    symbol \in DOMAIN registry /\ symbol \notin DOMAIN registry1

\* every other key of the registry keeps its listeners
OthersKept(registry, registry1, symbol) ==
    \A other \in DOMAIN registry \ {symbol} :
        other \in DOMAIN registry1 /\ registry1[other] = registry[other]

\* the listener is registered for the symbol
Registered(registry, symbol, listener) ==
    /\ symbol \in DOMAIN registry
    /\ \E i \in DOMAIN registry[symbol] : registry[symbol][i] = listener

\* C31: a step that unsubscribes a symbol from market data leaves that symbol
\* without market-data listeners, keeps the market-data listeners of every
\* other symbol and the whole trade registry, and symmetrically for trades;
\* and a publish cycle invokes only listeners that are registered, for the
\* symbol of the tick, when the cycle runs.
UnsubscribeDropsOneSymbol ==
    [][/\ \A symbol \in Symbols :
             /\ Dropped(market_data_callbacks, market_data_callbacks', symbol) =>
                   /\ OthersKept(market_data_callbacks, market_data_callbacks', symbol)
                   /\ trade_callbacks' = trade_callbacks
             /\ Dropped(trade_callbacks, trade_callbacks', symbol) =>
                   /\ OthersKept(trade_callbacks, trade_callbacks', symbol)
                   /\ market_data_callbacks' = market_data_callbacks
       /\ PublishStep =>
             \A i \in DOMAIN delivered' :
                 Registered(market_data_callbacks, delivered'[i].data.symbol,
                            delivered'[i].listener)]_vars

\* AAPL had a listener that received a tick and was unsubscribed; the next
\* cycle invoked the listener of MSFT only, and the listener stays registered
UnsubscribeWitness ==
    /\ "AAPL" \in DOMAIN generators
    /\ "AAPL" \notin DOMAIN market_data_callbacks
    /\ "MSFT" \in DOMAIN market_data_callbacks
    /\ market_data_callbacks["MSFT"] = <<"l2">>
    /\ cycles = 2
    /\ Len(delivered) = 1
    /\ delivered[1].listener = "l2" /\ delivered[1].data.symbol = "MSFT"

\* ---------------------------------------------------------------------------
\* C32  One tick generator per symbol
\* ---------------------------------------------------------------------------
\* subscribe_market_data for a symbol the market data thread has not seen
SubscribeFresh(symbol) ==
    /\ symbol \notin DOMAIN generators
    /\ SubscribeMarketData(symbol, "l1")

\* subscribe_market_data for a symbol that had ticks and was unsubscribed
Resubscribe(symbol) ==
    /\ symbol \in DOMAIN generators
    /\ symbol \notin DOMAIN market_data_callbacks
    /\ SubscribeMarketData(symbol, "l2")

\* two symbols subscribed, unsubscribed and subscribed again while the
\* market data thread of a started engine keeps publishing
NextGen ==
    \/ StartEngine
    \/ TickLoop
    \/ TickLock
    \/ \E order \in Perms(Symbols), change \in [Symbols -> Changes] :
          TickPublish(order, change)
    \/ \E symbol \in Symbols : SubscribeFresh(symbol)
    \/ \E symbol \in Symbols : UnsubscribeMarketData(symbol)
    \/ \E symbol \in Symbols : Resubscribe(symbol)

SpecGen == Init /\ [][NextGen]_vars

\* |price - previous| <= 1% of previous
WithinOnePercent(price, previous) ==
    /\ ~RLess(Rat(101, 100), RDiv(price, previous))
    /\ ~RLess(RDiv(price, previous), Rat(99, 100))

\* C32: the tick a publish cycle hands out for a symbol is within 1% of that
\* symbol's own previous tick price, or of the default price 100 when the
\* symbol has had no tick, and becomes the symbol's new last price; the last
\* price of a symbol without subscriber is kept; and while the engine runs
\* no other step, subscribing and unsubscribing included, changes a last price.
GeneratorPerSymbol ==
    [][/\ PublishStep =>
             /\ \A s \in DOMAIN market_data_callbacks :
                   LET previous == IF s \in DOMAIN generators THEN generators[s]
                                   ELSE RInt(DefaultPrice)
                       calls == CallsFor(delivered', s)
                   IN  /\ calls # <<>>
                       /\ \A i \in DOMAIN calls :
                             /\ IsFinite(calls[i].data.price)
                             /\ WithinOnePercent(calls[i].data.price, previous)
                             /\ generators'[s] = calls[i].data.price
             /\ \A s \in DOMAIN generators \ DOMAIN market_data_callbacks :
                   s \in DOMAIN generators' /\ generators'[s] = generators[s]
       /\ (running /\ ~PublishStep) => generators' = generators]_vars

\* AAPL moved from 100 to 101, was unsubscribed and subscribed again, and its
\* next tick went on from 101 to 99.99 while MSFT, seen for the first time in
\* that cycle, moved from 100 to 101
GeneratorPerSymbolWitness ==
    /\ cycles = 2
    /\ DOMAIN market_data_callbacks = {"AAPL", "MSFT"}
    /\ market_data_callbacks["AAPL"] = <<"l2">>
    /\ market_data_callbacks["MSFT"] = <<"l1">>
    /\ generators["AAPL"] = Rat(9999, 100)
    /\ generators["MSFT"] = RInt(101)
    /\ Len(delivered) = 2

\* ---------------------------------------------------------------------------
\* C33  Symbol isolation
\* ---------------------------------------------------------------------------
\* one-lot orders for two symbols
NextIso ==
    \/ \E symbol \in Symbols, price \in Prices,
          quantity \in LotQuantities, is_buy \in BOOLEAN :
            SubmitOrder(symbol, price, quantity, is_buy)
    \/ MatchStep
    \/ SubmitReturn

SpecIso == Init /\ [][NextIso]_vars

\* the symbol of the order of the submit_order call made last
LastSymbol(orders) == orders[Len(orders)].symbol

\* C33: a step of submit_order for a symbol, its insertion and each of its
\* matches, leaves every book of another symbol exactly as it was and creates
\* no book but the one of its symbol, which exists once the order is inserted;
\* and the two orders of every match are orders of the symbol of the book
\* that matched them.
SymbolIsolation ==
    [][/\ \A s \in DOMAIN order_books :
             /\ s \in DOMAIN order_books'
             /\ s # LastSymbol(submitted') => order_books'[s] = order_books[s]
       /\ DOMAIN order_books' \subseteq DOMAIN order_books \cup {LastSymbol(submitted')}
       /\ LastSymbol(submitted') \in DOMAIN order_books'
       /\ \A i \in DOMAIN fills' :
             /\ submitted'[fills'[i].buy_id].symbol = fills'[i].symbol
             /\ submitted'[fills'[i].sell_id].symbol = fills'[i].symbol]_vars

\* a buy of AAPL at 105 rests while a sell of MSFT at 100 rests: the prices
\* cross, the symbols differ, nothing matched; MSFT's own buy and sell did
SymbolIsolationWitness ==
    /\ pc = "idle"
    /\ DOMAIN order_books = {"AAPL", "MSFT"}
    /\ Len(order_books["AAPL"].buy_orders) = 1
    /\ HeapTop(order_books["AAPL"].buy_orders).price = 105
    /\ Len(order_books["MSFT"].sell_orders) = 1
    /\ HeapTop(order_books["MSFT"].sell_orders).price = 100
    /\ order_books["AAPL"].position_ = 0
    /\ order_books["MSFT"].position_ = 100
    /\ Len(fills) = 1

\* ---------------------------------------------------------------------------
\* The OCaml ExecutionEngine wrapper: subscriptions
\* ---------------------------------------------------------------------------
\* the closures some registry of the engine still holds
LiveClosures ==
    UNION {Range(market_data_callbacks[s]) : s \in DOMAIN market_data_callbacks}
    \cup UNION {Range(trade_callbacks[s]) : s \in DOMAIN trade_callbacks}

\* the name given to the closure built by the next subscription
FreshClosure == CHOOSE k \in ClosureNames : k \notin LiveClosures

\* callback :: cbs, or [callback] when the Hashtbl has no entry
ConsCallback(table, symbol, callback) ==
    IF symbol \in DOMAIN table THEN <<callback>> \o table[symbol]
    ELSE <<callback>>

\* ExecutionEngine.subscribe_market_data of the wrapper: the new list goes
\* into the Hashtbl, and a closure that iterates over that list is registered
\* with the engine by subscribe_market_data of the bindings
WrapperSubscribeMarketData(symbol, callback) ==
    /\ ~aborted
    /\ engine_mutex = "free"
    /\ Subscriptions < MaxSubscriptions
    /\ LET callbacks == ConsCallback(wrapper.market_data_callbacks, symbol, callback)
       IN  /\ wrapper' = [wrapper EXCEPT !.market_data_callbacks =
                             MapPut(@, symbol, callbacks)]
           /\ closures' = MapPut([k \in DOMAIN closures \cap LiveClosures |-> closures[k]],
                                 FreshClosure, callbacks)
    /\ market_data_callbacks' =
          PushBackCallback(market_data_callbacks, symbol, FreshClosure)
    /\ UNCHANGED <<bookVars, lifeVars, clientVars, threadVars, frpVars,
                   trade_callbacks, trade_received>>

\* ExecutionEngine.unsubscribe_market_data of the wrapper
WrapperUnsubscribeMarketData(symbol) ==
    /\ ~aborted
    /\ engine_mutex = "free"
    /\ wrapper' = [wrapper EXCEPT !.market_data_callbacks = MapErase(@, symbol)]
    /\ market_data_callbacks' = MapErase(market_data_callbacks, symbol)
    /\ UNCHANGED <<bookVars, lifeVars, clientVars, threadVars, frpVars, closures,
                   trade_callbacks, trade_received>>

\* ExecutionEngine.subscribe_trades of the wrapper
WrapperSubscribeTrades(symbol, callback) ==
    /\ ~aborted
    /\ engine_mutex = "free"
    /\ Subscriptions < MaxSubscriptions
    /\ LET callbacks == ConsCallback(wrapper.trade_callbacks, symbol, callback)
       IN  /\ wrapper' = [wrapper EXCEPT !.trade_callbacks =
                             MapPut(@, symbol, callbacks)]
           /\ closures' = MapPut([k \in DOMAIN closures \cap LiveClosures |-> closures[k]],
                                 FreshClosure, callbacks)
    /\ trade_callbacks' = PushBackCallback(trade_callbacks, symbol, FreshClosure)
    /\ UNCHANGED <<bookVars, lifeVars, clientVars, threadVars, frpVars,
                   market_data_callbacks, trade_received>>

\* ExecutionEngine.unsubscribe_trades of the wrapper
WrapperUnsubscribeTrades(symbol) ==
    /\ ~aborted
    /\ engine_mutex = "free"
    /\ wrapper' = [wrapper EXCEPT !.trade_callbacks = MapErase(@, symbol)]
    /\ trade_callbacks' = MapErase(trade_callbacks, symbol)
    /\ UNCHANGED <<bookVars, lifeVars, clientVars, threadVars, frpVars, closures,
                   market_data_callbacks, trade_received>>

\* the wrapper's subscriptions for one symbol and the market data thread of
\* the engine that new_execution_engine started
NextWrapper ==
    \/ StartEngine
    \/ TickLoop
    \/ TickLock
    \/ \E order \in Perms(Symbols), change \in [Symbols -> {1}] :
          TickPublish(order, change)
    \/ \E callback \in Listeners : WrapperSubscribeMarketData("AAPL", callback)
    \/ WrapperUnsubscribeMarketData("AAPL")
    \/ \E callback \in Listeners : WrapperSubscribeTrades("AAPL", callback)
    \/ WrapperUnsubscribeTrades("AAPL")

SpecWrapper == Init /\ [][NextWrapper]_vars

RECURSIVE ListenerCalls(_, _)
\* the OCaml listeners run by the engine's invocations `calls`, in order:
\* each invoked closure does List.iter over the list it captured
ListenerCalls(calls, env) ==
    IF calls = <<>> THEN <<>>
    ELSE env[Head(calls).listener] \o ListenerCalls(Tail(calls), env)

\* the sequence reversed
Reverse(list) == [i \in DOMAIN list |-> list[Len(list) + 1 - i]]

\* ---------------------------------------------------------------------------
\* C34  Fan-out through the OCaml wrapper
\* ---------------------------------------------------------------------------
\* C34: in every publish cycle, the listeners subscribed through the wrapper
\* for a symbol are invoked once each, in subscription order.
WrapperFanOut ==
    [][PublishStep =>
          \A s \in DOMAIN wrapper.market_data_callbacks :
              ListenerCalls(CallsFor(delivered', s), closures')
                 = Reverse(wrapper.market_data_callbacks[s])]_vars

\* ---------------------------------------------------------------------------
\* FRP streams
\* ---------------------------------------------------------------------------
\* the values of test_stream_operators
Values == {3, 6, 8}

\* the record's subscribe field: subscribers := callback :: !subscribers.
\* Nothing else happens: the functions next, error and complete that iterate
\* over the subscribers are local to create_stream and are never called
StreamSubscribe(subs, s, callback) ==
    [subs EXCEPT ![s] = <<callback>> \o @]

\* filtered.subscribe (function Next value -> received := value :: !received)
Collect(listener) ==
    /\ ~aborted
    /\ \A i \in DOMAIN subscribers["filtered"] :
          subscribers["filtered"][i].listener # listener
    /\ subscribers' = StreamSubscribe(subscribers, "filtered",
          [kind |-> "collect", listener |-> listener, since |-> Len(emitted)])
    /\ UNCHANGED <<emitted, received, strategy, ticks, engine_calls>>
    /\ UNCHANGED <<bookVars, lifeVars, subVars, clientVars, threadVars, wrapperVars>>

\* stream.subscribe (fun cb -> cb (Next value)), the way the test emits
Emit(value) ==
    /\ ~aborted
    /\ Len(emitted) < MaxEmits
    /\ subscribers' = StreamSubscribe(subscribers, "stream",
          [kind |-> "emit", value |-> value])
    /\ emitted' = Append(emitted, value)
    /\ UNCHANGED <<received, strategy, ticks, engine_calls>>
    /\ UNCHANGED <<bookVars, lifeVars, subVars, clientVars, threadVars, wrapperVars>>

NextFrp ==
    \/ \E listener \in Listeners : Collect(listener)
    \/ \E value \in Values : Emit(value)

SpecFrp == Init /\ [][NextFrp]_vars

\* map ~f:(fun x -> x * 2) then filter ~f:(fun x -> x > 10) over a sequence
DoubledAbove10(values) ==
    SelectSeq([i \in DOMAIN values |-> values[i] * 2], LAMBDA x : x > 10)

\* ---------------------------------------------------------------------------
\* C35  map and filter deliver f(v) for the values that pass
\* ---------------------------------------------------------------------------
\* C35: a subscriber of filter(map(stream, x * 2), > 10) has received, in
\* emission order, the doubles above 10 of the values emitted on the stream
\* since it subscribed: 12 then 16 for 3, 6, 8.
StreamOperators ==
    \A i \in DOMAIN subscribers["filtered"] :
        LET c == subscribers["filtered"][i]
        IN  received[c.listener] =
               DoubledAbove10(SubSeq(emitted, c.since + 1, Len(emitted)))

\* ---------------------------------------------------------------------------
\* The strategy layer
\* ---------------------------------------------------------------------------
RECURSIVE eval_condition(_, _)
eval_condition(market_data, condition) ==
    CASE condition.op = "Price_above" -> market_data.price > condition.arg
      [] condition.op = "Price_below" -> market_data.price < condition.arg
      [] condition.op = "Volume_above" -> market_data.quantity > condition.arg
      [] condition.op = "Volume_below" -> market_data.quantity < condition.arg
      [] condition.op = "And" -> /\ eval_condition(market_data, condition.c1)
                                 /\ eval_condition(market_data, condition.c2)
      [] condition.op = "Or" -> \/ eval_condition(market_data, condition.c1)
                                \/ eval_condition(market_data, condition.c2)
      [] condition.op = "Not" -> ~eval_condition(market_data, condition.c1)

\* mutant: every order is approved
validate_order_always(risk, order) == TRUE

\* Risk.validate_order
validate_order(risk, order) == order.quantity <= risk.max_position_size

\* execute_rule: the engine calls one rule makes for one market data event
execute_rule(risk, rule, market_data) ==
    IF eval_condition(market_data, rule.condition) /\ rule.action.kind \in {"Buy", "Sell"}
    THEN LET order == [symbol |-> rule.symbol, price |-> market_data.price,
                       quantity |-> rule.action.quantity, side |-> rule.action.kind]
         IN  IF validate_order(risk, order) THEN <<order>> ELSE <<>>
    ELSE <<>>

RECURSIVE process_market_data(_, _, _)
\* List.iter strategy.rules ~f:(fun rule -> execute_rule rule market_data)
process_market_data(risk, rules, market_data) ==
    IF rules = <<>> THEN <<>>
    ELSE execute_rule(risk, Head(rules), market_data)
            \o process_market_data(risk, Tail(rules), market_data)

\* the rules of the strategies: every constructor of condition and of action
Rules ==
    <<[symbol |-> "AAPL",
       condition |-> [op |-> "Price_below", arg |-> 105],
       action |-> [kind |-> "Buy", quantity |-> 100]],
      [symbol |-> "AAPL",
       condition |-> [op |-> "Or",
                      c1 |-> [op |-> "Price_above", arg |-> 100],
                      c2 |-> [op |-> "Not", c1 |-> [op |-> "Volume_above", arg |-> 50]]],
       action |-> [kind |-> "Sell", quantity |-> 50]],
      [symbol |-> "AAPL",
       condition |-> [op |-> "And",
                      c1 |-> [op |-> "Volume_below", arg |-> 100],
                      c2 |-> [op |-> "Price_above", arg |-> 100]],
       action |-> [kind |-> "Cancel_all", quantity |-> 0]]>>

\* the max_position_size of the risk parameters
PositionLimits == {50, 100}

\* execute_strategy: the strategy's handler is subscribed to the stream it
\* is given
ExecuteStrategy(max_position_size) ==
    /\ ~aborted
    /\ strategy = NoStrategy
    /\ strategy' = [name |-> "s", rules |-> Rules,
                    max_position_size |-> max_position_size]
    /\ UNCHANGED <<subscribers, emitted, received, ticks, engine_calls>>
    /\ UNCHANGED <<bookVars, lifeVars, subVars, clientVars, threadVars, wrapperVars>>

\* the stream hands Next market_data to the strategy's handler
ProcessMarketData(price, quantity) ==
    /\ ~aborted
    /\ strategy # NoStrategy
    /\ Len(ticks) < MaxTicks
    /\ ticks' = Append(ticks, [price |-> price, quantity |-> quantity])
    /\ engine_calls' = engine_calls \o
          process_market_data(strategy, strategy.rules,
                              [price |-> price, quantity |-> quantity])
    /\ UNCHANGED <<subscribers, emitted, received, strategy>>
    /\ UNCHANGED <<bookVars, lifeVars, subVars, clientVars, threadVars, wrapperVars>>

NextStrategy ==
    \/ \E max_position_size \in PositionLimits : ExecuteStrategy(max_position_size)
    \/ \E price \in Prices, quantity \in Quantities : ProcessMarketData(price, quantity)

SpecStrategy == Init /\ [][NextStrategy]_vars

\* the rules whose condition holds on the market data, whose action is an
\* order, and whose order is within the position limit
Approved(market_data) ==
    {i \in DOMAIN strategy.rules :
        /\ eval_condition(market_data, strategy.rules[i].condition)
        /\ strategy.rules[i].action.kind \in {"Buy", "Sell"}
        /\ strategy.rules[i].action.quantity <= strategy.max_position_size}

\* ---------------------------------------------------------------------------
\* C36  The strategy submits only approved orders of true conditions
\* ---------------------------------------------------------------------------
\* C36: every order the strategy submits while it processes a market data
\* event is the order of a rule whose condition is true on that event and
\* whose quantity is at most max_position_size, there is one engine call for
\* each such rule, and no other engine call.
StrategySubmitsApproved ==
    [][LET new == SubSeq(engine_calls', Len(engine_calls) + 1, Len(engine_calls'))
           market_data == ticks'[Len(ticks')]
       IN  /\ Len(new) = Cardinality(Approved(market_data))
           /\ \A k \in DOMAIN new :
                 /\ new[k].quantity <= strategy.max_position_size
                 /\ \E i \in Approved(market_data) :
                       /\ new[k].quantity = strategy.rules[i].action.quantity
                       /\ new[k].side = strategy.rules[i].action.kind
                       /\ new[k].symbol = strategy.rules[i].symbol
                       /\ new[k].price = market_data.price]_<<ticks, engine_calls>>

\* with a limit of 50 the event (100, 100) made the Buy 100 rule true and its
\* order was rejected: no call; the event (105, 50) made the Sell 50 rule
\* true and its order was submitted
StrategyWitness ==
    /\ strategy.max_position_size = 50
    /\ ticks = <<[price |-> 100, quantity |-> 100], [price |-> 105, quantity |-> 50]>>
    /\ engine_calls = <<[symbol |-> "AAPL", price |-> 105, quantity |-> 50,
                         side |-> "Sell"]>>

============================================================================
